---- MODULE Spec2Model ----
(***************************************************************************)
(* BandcampPlugin (DisTuneJS/plugins, packages/bandcamp): the URL          *)
(* classifier, resolve, the search fan-out/fan-in, searchSong,             *)
(* getStreamURL, getRelatedSongs and the entity decoding of the page       *)
(* parsers.                                                                *)
(*                                                                         *)
(* Text is a sequence of tokens.  A token is one character ("/", ":",      *)
(* ".", "\\", "?", "=") or one word that the code never looks inside       *)
(* ("https", "bandcamp", "track", ...), so startsWith / endsWith /         *)
(* includes / split on the markers the code uses are exact on tokens.      *)
(* An optional value (a JSON field that may be missing) is a sequence of   *)
(* length 0 or 1.  A missing string and the empty string are both <<>>:    *)
(* the code tests such values for truthiness only.                         *)
(*                                                                         *)
(* Not modelled: artist, thumbnail, album title, track number and          *)
(* uploader of the entities (no operation branches on them), and the       *)
(* fields the host constructors Song/Album of @distune/core add.           *)
(***************************************************************************)
EXTENDS Integers, Sequences, FiniteSets, TLC

\* ------------------------------------------------------------------ bounds
MaxTracks == 3      \* longest trackinfo of a page served to resolve
MaxCandTracks == 2  \* longest trackinfo of a page served to a search candidate
MaxResults == 3     \* longest result list of a search response
MaxLimit == 3       \* largest explicit limit argument
MaxChunks == 3      \* most pieces a text handed to the entity decoder is written from

\* ---------------------------------------------------------- program values
DefaultLimit == 10
RelatedLimit == 10

None == <<>>
Some(x) == <<x>>

\* ------------------------------------------------------------------- text
RECURSIVE Flatten(_)
Flatten(ss) == IF ss = <<>> THEN <<>> ELSE Head(ss) \o Flatten(Tail(ss))

StartsWith(s, p) == Len(s) >= Len(p) /\ SubSeq(s, 1, Len(p)) = p

EndsWith(s, p) == Len(s) >= Len(p) /\ SubSeq(s, Len(s) - Len(p) + 1, Len(s)) = p

MatchAt(s, p, i) == i + Len(p) - 1 <= Len(s) /\ SubSeq(s, i, i + Len(p) - 1) = p

Includes(s, p) == \E i \in 1..(Len(s) + 1) : MatchAt(s, p, i)

\* s.split(p)[0]: the text before the first occurrence of p, all of s without one
SplitFirst(s, p) ==
    IF Includes(s, p)
    THEN LET i == CHOOSE k \in 1..(Len(s) + 1) :
                     MatchAt(s, p, k) /\ \A j \in 1..(k - 1) : ~MatchAt(s, p, j)
         IN SubSeq(s, 1, i - 1)
    ELSE s

HttpPrefix == <<"http", ":", "/", "/">>
HttpsPrefix == <<"https", ":", "/", "/">>
TrackMarker == <<"/", "track", "/">>
AlbumMarker == <<"/", "album", "/">>
BandcampSuffix == <<".", "bandcamp", ".", "com">>

\* ---------------------------------------------------------- new URL(text)
\* The part of the WHATWG parser the inputs exercise: a special scheme
\* followed by ":", any run of slashes or backslashes, a non-empty host up
\* to the next "/", "\\" or "?", then the path up to "?".  The host is
\* lower-cased; in the path of a special scheme a backslash is a slash; an
\* empty path is "/".
SpecialSchemes == {"http", "https"}
Slashes == {"/", "\\"}
HostEnd == {"/", "\\", "?"}

Lower(t) == CASE t = "BANDCAMP" -> "bandcamp" [] t = "COM" -> "com" [] OTHER -> t

RECURSIVE DropWhileIn(_, _)
DropWhileIn(s, set) ==
    IF s # <<>> /\ Head(s) \in set THEN DropWhileIn(Tail(s), set) ELSE s

RECURSIVE TakeUntilIn(_, _)
TakeUntilIn(s, set) ==
    IF s = <<>> \/ Head(s) \in set THEN <<>> ELSE <<Head(s)>> \o TakeUntilIn(Tail(s), set)

RECURSIVE DropUntilIn(_, _)
DropUntilIn(s, set) ==
    IF s = <<>> \/ Head(s) \in set THEN s ELSE DropUntilIn(Tail(s), set)

InvalidURL == [valid |-> FALSE, hostname |-> <<>>, pathname |-> <<>>]

ParseURL(s) ==
    IF Len(s) < 2 \/ s[1] \notin SpecialSchemes \/ s[2] # ":"
    THEN InvalidURL
    ELSE LET afterScheme == DropWhileIn(SubSeq(s, 3, Len(s)), Slashes)
             host == TakeUntilIn(afterScheme, HostEnd)
             rest == DropUntilIn(afterScheme, HostEnd)
             rawPath == TakeUntilIn(rest, {"?"})
             path == [i \in 1..Len(rawPath) |->
                         IF rawPath[i] = "\\" THEN "/" ELSE rawPath[i]]
         IN IF host = <<>>
            THEN InvalidURL
            ELSE [valid |-> TRUE,
                  hostname |-> [i \in 1..Len(host) |-> Lower(host[i])],
                  pathname |-> IF path = <<>> THEN <<"/">> ELSE path]

\* validate with includes in place of endsWith on the host name
validateHostIncludes(v) ==
    IF v.t # "string"
    THEN FALSE
    ELSE LET parsed == ParseURL(v.s)
         IN IF ~parsed.valid
            THEN FALSE
            ELSE /\ Includes(parsed.hostname, BandcampSuffix)
                 /\ (Includes(parsed.pathname, TrackMarker)
                        \/ Includes(parsed.pathname, AlbumMarker))

\* ------------------------------------------------------ validate (74-87)
\* v is a JS value: [t |-> "string", s |-> text] or a value of another type.
validate(v) ==
    IF v.t # "string"
    THEN FALSE
    ELSE LET parsed == ParseURL(v.s)
         IN IF ~parsed.valid
            THEN FALSE
            ELSE /\ EndsWith(parsed.hostname, BandcampSuffix)
                 /\ (Includes(parsed.pathname, TrackMarker)
                        \/ Includes(parsed.pathname, AlbumMarker))

\* ----------------------------------------------------------------- errors
\* A thrown value: the error's kind (a DisTuneError's code, or the class of
\* a built-in error) and its message.
Err(code, message) == [code |-> code, message |-> message]

NoErr == Err("", "")

DisTuneError(code, message) == Err(code, message)

\* error instanceof Error ? error.message : String(error); every thrown
\* value of the model is an Error
MessageOf(e) == e.message

\* ------------------------------------------------- pages and their records
\* One trackinfo entry of a tralbum record.  mp3 is file['mp3-128'].
Rel == <<"/", "/", "cdn", "/", "s1">>
Bare == <<"cdn", "/", "s3">>
Schemed == <<"https", ":", "/", "/", "cdn", "/", "s4">>
SchemedHttp == <<"http", ":", "/", "/", "cdn", "/", "s5">>

Entry(track_id, title, title_link, duration, mp3) ==
    [track_id |-> track_id, title |-> title, title_link |-> title_link,
     duration |-> duration, mp3 |-> mp3]

Playable == Entry(Some(1), "A", <<"a">>, Some(5), Rel)
Unplayable == Entry(Some(2), "B", <<"b">>, None, None)

Entries ==
    { Playable,
      Unplayable,
      Entry(None, "C", None, None, Bare),
      Entry(Some(4), "D", <<"d">>, Some(7), Schemed) }

\* the entries of the pages served to search candidates
CandidateEntries == { Playable, Unplayable }

TrackInfos(entries, max) == UNION { [1..n -> entries] : n \in 0..max }

\* What the network answers to a page request: the request rejects, the
\* status is not a success, or a page arrives.  attr is what
\* /data-tralbum="([^"]+)"/, entity decoding and JSON.parse make of it.
Response(status, attr, hasTrackinfo, trackinfo) ==
    [status |-> status, attr |-> attr, hasTrackinfo |-> hasTrackinfo,
     trackinfo |-> trackinfo]

NoPage == Response("none", "absent", FALSE, <<>>)

PagesOf(entries, max) ==
    { Response("reject", "absent", FALSE, <<>>),
      Response("http_error", "absent", FALSE, <<>>),
      Response("ok", "absent", FALSE, <<>>),
      Response("ok", "badjson", FALSE, <<>>),
      Response("ok", "record", FALSE, <<>>) }
    \cup { Response("ok", "record", TRUE, ti) : ti \in TrackInfos(entries, max) }

Pages == PagesOf(Entries, MaxTracks)

CandidatePages == PagesOf(CandidateEntries, MaxCandTracks)

\* ----------------------------- entity decoding (271-276, 318-323, 420-425)
\* Here a token is one character.
EntityQuot == <<"&", "q", "u", "o", "t", ";">>
EntityAmp == <<"&", "a", "m", "p", ";">>
EntityLt == <<"&", "l", "t", ";">>
EntityGt == <<"&", "g", "t", ";">>
EntityApos == <<"&", "#", "3", "9", ";">>

\* s.replace(/pat/g, rep): every occurrence, left to right, not overlapping
RECURSIVE ReplaceAll(_, _, _)
ReplaceAll(s, pat, rep) ==
    IF s = <<>> THEN <<>>
    ELSE IF StartsWith(s, pat)
    THEN rep \o ReplaceAll(SubSeq(s, Len(pat) + 1, Len(s)), pat, rep)
    ELSE <<Head(s)>> \o ReplaceAll(Tail(s), pat, rep)

\* the five replace calls, each over the result of the one before
EntityDecode(s) ==
    LET s1 == ReplaceAll(s, EntityQuot, <<"\"">>)
        s2 == ReplaceAll(s1, EntityAmp, <<"&">>)
        s3 == ReplaceAll(s2, EntityLt, <<"<">>)
        s4 == ReplaceAll(s3, EntityGt, <<">">>)
    IN ReplaceAll(s4, EntityApos, <<"'">>)

\* How a page carries a text inside data-tralbum="...": the five
\* characters stand as their entities, every other character as itself.
HtmlEncodeChar(c) ==
    CASE c = "&" -> EntityAmp
      [] c = "\"" -> EntityQuot
      [] c = "<" -> EntityLt
      [] c = ">" -> EntityGt
      [] c = "'" -> EntityApos
      [] OTHER -> <<c>>

HtmlEncode(x) == Flatten([i \in 1..Len(x) |-> HtmlEncodeChar(x[i])])

\* The texts a page may carry: written from single characters and from
\* the tails of the entities, so that a text may itself spell "&lt;".
Chunks ==
    { <<"&">>, <<"\"">>, <<"<">>, <<">">>, <<"'">>, <<"a">>, <<";">>,
      <<"l", "t", ";">>, <<"g", "t", ";">>, <<"q", "u", "o", "t", ";">>,
      <<"a", "m", "p", ";">>, <<"#", "3", "9", ";">> }

Plains ==
    { Flatten(cs) : cs \in UNION { [1..n -> Chunks] : n \in 1..MaxChunks } }

\* tralbumMatch[1] on its way to JSON.parse: plain is what the page's author
\* encoded, captured is the group /data-tralbum="([^"]+)"/ matched
Extract(st, plain, captured, decoded) ==
    [st |-> st, plain |-> plain, captured |-> captured, decoded |-> decoded]

NoExtract == Extract("none", <<>>, <<>>, <<>>)

\* --------------------------------------------------- fetchPage (245-258)
fetchPage(resp) ==
    IF resp.status = "reject"
    THEN [ok |-> FALSE, err |-> Err("TypeError", "fetch failed")]
    ELSE IF resp.status # "ok"
    THEN [ok |-> FALSE, err |-> Err("Error", "Failed to fetch page")]
    ELSE [ok |-> TRUE, err |-> NoErr]

\* ------------------------------------------------ BandcampSong (459-491)
HasScheme(s) == StartsWith(s, HttpPrefix) \/ StartsWith(s, HttpsPrefix)

NoSong == [id |-> <<>>, name |-> "", url |-> <<>>, duration |-> 0, streamUrl |-> <<>>]

BandcampSong(info) ==
    [id |-> info.id,
     name |-> info.title,
     url |-> info.url,
     duration |-> info.duration,
     streamUrl |-> IF info.streamUrl # <<>> /\ ~HasScheme(info.streamUrl)
                   THEN <<"https", ":">> \o info.streamUrl
                   ELSE info.streamUrl]

\* trackInfo.track_id?.toString() || trackInfo.title_link
TrackId(e) == IF e.track_id # None THEN <<ToString(e.track_id[1])>> ELSE e.title_link

\* trackInfo.duration || 0
Duration(e) == IF e.duration # None THEN e.duration[1] ELSE 0

\* ----------------------------------------------- parseTrackPage (263-305)
\* the last entry in place of the first
lastTrack(page) ==
    IF page.hasTrackinfo /\ page.trackinfo # <<>>
    THEN Some(page.trackinfo[Len(page.trackinfo)]) ELSE None

\* tralbumData.trackinfo?.[0]
firstTrack(page) ==
    IF page.hasTrackinfo /\ page.trackinfo # <<>> THEN Some(page.trackinfo[1]) ELSE None

parseTrackPage(page, url) ==
    IF page.attr = "absent"
    THEN [ok |-> FALSE, song |-> NoSong,
          err |-> Err("Error", "Could not find track data on page")]
    ELSE IF page.attr = "badjson"
    THEN [ok |-> FALSE, song |-> NoSong, err |-> Err("SyntaxError", "Unexpected token")]
    ELSE LET first == firstTrack(page)
             mp3_128 == IF first # None THEN first[1].mp3 ELSE <<>>
         IN IF mp3_128 = <<>>
            THEN [ok |-> FALSE, song |-> NoSong,
                  err |-> Err("Error", "Could not find MP3 stream URL")]
            ELSE [ok |-> TRUE,
                  song |-> BandcampSong([id |-> TrackId(first[1]),
                                         title |-> first[1].title,
                                         duration |-> Duration(first[1]),
                                         url |-> url,
                                         streamUrl |-> mp3_128]),
                  err |-> NoErr]

\* ----------------------------------------------- parseAlbumPage (310-355)
\* a filter that keeps every entry
HasStreamAlways(e) == TRUE

\* t.file?.['mp3-128']
HasStream(e) == e.mp3 # <<>>

\* the track list without the filter on file['mp3-128']
AlbumTracksUnfiltered(trackinfo) == trackinfo

\* tralbumData.trackinfo.filter((t) => t.file?.['mp3-128'])
AlbumTracks(trackinfo) == SelectSeq(trackinfo, HasStream)

AlbumTrackUrl(e, url) ==
    IF e.title_link # <<>>
    THEN SplitFirst(url, AlbumMarker) \o <<"/", "track", "/">> \o e.title_link
    ELSE url

NoAlbum == [url |-> <<>>, songs |-> <<>>]

\* BandcampAlbum (493-508): one BandcampSong per retained track, in order
BandcampAlbum(url, tracks) ==
    [url |-> url, songs |-> [i \in 1..Len(tracks) |-> BandcampSong(tracks[i])]]

parseAlbumPage(page, url) ==
    IF page.attr = "absent"
    THEN [ok |-> FALSE, album |-> NoAlbum,
          err |-> Err("Error", "Could not find album data on page")]
    ELSE IF page.attr = "badjson"
    THEN [ok |-> FALSE, album |-> NoAlbum, err |-> Err("SyntaxError", "Unexpected token")]
    ELSE IF ~page.hasTrackinfo
    THEN [ok |-> FALSE, album |-> NoAlbum,
          err |-> Err("TypeError", "Cannot read properties of undefined")]
    ELSE LET kept == AlbumTracks(page.trackinfo)
             tracks == [i \in 1..Len(kept) |->
                           [id |-> TrackId(kept[i]),
                            title |-> kept[i].title,
                            duration |-> Duration(kept[i]),
                            url |-> AlbumTrackUrl(kept[i], url),
                            streamUrl |-> kept[i].mp3]]
         IN [ok |-> TRUE, album |-> BandcampAlbum(url, tracks), err |-> NoErr]

\* ------------------------------------------------- getStreamURL (376-387)
\* getStreamURL without the test of song.streamUrl
getStreamURLNoGuard(song) ==
    IF ~HasScheme(song.streamUrl)
    THEN [ok |-> TRUE, url |-> <<"https", ":">> \o song.streamUrl, err |-> NoErr]
    ELSE [ok |-> TRUE, url |-> song.streamUrl, err |-> NoErr]

getStreamURL(song) ==
    IF song.streamUrl = <<>>
    THEN [ok |-> FALSE, url |-> <<>>,
          err |-> DisTuneError("BANDCAMP_PLUGIN_INVALID_SONG",
                               "Cannot get stream URL from invalid song.")]
    ELSE IF ~HasScheme(song.streamUrl)
    THEN [ok |-> TRUE, url |-> <<"https", ":">> \o song.streamUrl, err |-> NoErr]
    ELSE [ok |-> TRUE, url |-> song.streamUrl, err |-> NoErr]

\* ------------------------------------------------------------ arguments
\* JS values handed to the plugin as url or query.
Str(s) == [t |-> "string", s |-> s]
NonString == [t |-> "number", s |-> <<>>]
Undefined == [t |-> "undefined", s |-> <<>>]

\* A URL argument is written from its parts, so that what validate makes of
\* the text can be compared with what the text was built from: the host's
\* labels, the path's segments (<<>> is the empty segment after a trailing
\* separator), the separator used, upper-case host spelling, and a query
\* that itself contains "/track/".
Part(form, scheme, labels, upper, segs, sep, query, text) ==
    [form |-> form, scheme |-> scheme, labels |-> labels, upper |-> upper,
     segs |-> segs, sep |-> sep, query |-> query, text |-> text]

HostLabels ==
    { << <<"a">>, <<"bandcamp">>, <<"com">> >>,
      << <<"bandcamp">>, <<"com">> >>,
      << <<"not-", "bandcamp">>, <<"com">> >>,
      << <<"a">>, <<"bandcamp">>, <<"com">>, <<"evil">>, <<"org">> >> }

PathSegs ==
    { << <<"track">>, <<"x">> >>,
      << <<"album">>, <<"x">> >>,
      << <<"track">>, <<>> >>,
      << <<"x">>, <<"album">>, <<"y">> >>,
      << <<"track">> >>,
      << <<"x">> >>,
      << >> }

MalformedTexts ==
    { <<"not-a-url">>,
      << >>,
      <<"https", ":", "/", "/">>,
      <<"a", ".", "bandcamp", ".", "com", "/", "track", "/", "x">> }

UrlParts ==
    { Part("url", sc, l, u, p, sep, q, <<>>) :
        sc \in SpecialSchemes, l \in HostLabels, u \in BOOLEAN, p \in PathSegs,
        sep \in Slashes, q \in BOOLEAN }
    \cup { Part("malformed", "", <<>>, FALSE, <<>>, "/", FALSE, t) : t \in MalformedTexts }
    \cup { Part("nonstring", "", <<>>, FALSE, <<>>, "/", FALSE, <<>>) }

Upper(t) == CASE t = "bandcamp" -> "BANDCAMP" [] t = "com" -> "COM" [] OTHER -> t

MarkerQuery == <<"?", "r", "=", "/", "track", "/">>

RenderHost(c) ==
    LET spelt == [i \in 1..Len(c.labels) |->
                     [j \in 1..Len(c.labels[i]) |->
                         IF c.upper THEN Upper(c.labels[i][j]) ELSE c.labels[i][j]]]
    IN Flatten([i \in 1..Len(spelt) |-> IF i = 1 THEN spelt[i] ELSE <<".">> \o spelt[i]])

Render(c) ==
    IF c.form = "nonstring" THEN NonString
    ELSE IF c.form = "malformed" THEN Str(c.text)
    ELSE Str(<<c.scheme, ":", "/", "/">> \o RenderHost(c)
             \o Flatten([i \in 1..Len(c.segs) |-> <<c.sep>> \o c.segs[i]])
             \o (IF c.query THEN MarkerQuery ELSE <<>>))

NoPart == Part("nonstring", "", <<>>, FALSE, <<>>, "/", FALSE, <<>>)

\* limit: a number (an integer n, n + 0.5, or NaN), a value of another
\* type, or left out
Lim(t, int, nan, n) == [t |-> t, int |-> int, nan |-> nan, n |-> n]

Limits ==
    { Lim("number", TRUE, FALSE, n) : n \in -1..MaxLimit }
    \cup { Lim("number", FALSE, FALSE, n) : n \in 0..1 }
    \cup { Lim("number", FALSE, TRUE, 0), Lim("string", FALSE, FALSE, 0),
           Lim("undefined", FALSE, FALSE, 0) }

Queries == { Str(<<"q">>), NonString }

\* the check without Number.isInteger
BadLimitNoIntegerCheck(l) == l.t # "number" \/ (~l.nan /\ l.n < 1)

\* typeof limit !== 'number' || limit < 1 || !Number.isInteger(limit)
BadLimit(l) == l.t # "number" \/ (~l.nan /\ l.n < 1) \/ ~l.int

\* limit = 10 when the argument is left out
EffectiveLimit(l) == IF l.t = "undefined" THEN Lim("number", TRUE, FALSE, DefaultLimit) ELSE l

\* --------------------------------------------------------- search results
Cand(type, id, path) == [type |-> type, id |-> id, item_url_path |-> path]

CandUrl(type, id) ==
    <<"https", ":", "/", "/", "a", ".", "bandcamp", ".", "com", "/",
      IF type = "t" THEN "track" ELSE "album", "/", ToString(id)>>

\* the shapes of one entry: its type, and whether it carries item_url_path
CandShapes == { <<"t", TRUE>>, <<"t", FALSE>>, <<"a", TRUE>>, <<"a", FALSE>>, <<"b", FALSE>> }

ResultLists ==
    UNION { { [i \in 1..n |-> Cand(sh[i][1], i,
                                   IF sh[i][2] THEN CandUrl(sh[i][1], i) ELSE <<>>)] :
                sh \in [1..n -> CandShapes] } : n \in 0..MaxResults }

\* What the network answers to the search request: the request rejects,
\* the body is not JSON, the body has no auto.results, or a result list.
SearchResponses ==
    { [status |-> st, results |-> <<>>] : st \in {"reject", "badjson", "noauto"} }
    \cup { [status |-> "ok", results |-> r] : r \in ResultLists }

\* ------------------------------------------------------------------ state
VARIABLES
    pc,        \* where the one call in progress stands: "idle", "resolving"
               \* (awaiting fetchPage), "searching" (awaiting the search
               \* request), "fanout" (awaiting Promise.all), "relating"
               \* (getRelatedSongs awaiting fetchPage), "done"
    call,      \* the operation called and its arguments
    fetches,   \* the URLs of the page requests the call has issued, in order
    searches,  \* how many search requests the call has issued
    cands,     \* the candidates handed to the fan-out: results.slice(0, limit)
    slots,     \* per candidate, what its callback resolved to
    order,     \* the candidates' indices in the order their fetches completed
    parser,    \* which page parser resolve handed the page to
    inner,     \* the error the top-level catch block caught, if any
    result,    \* what the call returned or threw
    page,      \* what the network answered to resolve's page request
    response,  \* of the search response: its status, how many results it
               \* lists, how many of them are of the requested kind, and
               \* at which positions of the list those stand
    failed,    \* the candidates whose fetchPage or page parser threw
    extract    \* the data-tralbum attribute a page parser is decoding

vars == <<pc, call, fetches, searches, cands, slots, order, parser, inner, result,
          page, response, failed, extract>>

Call(op, url, part, query, limit, song) ==
    [op |-> op, url |-> url, part |-> part, query |-> query, limit |-> limit,
     song |-> song]

NoLimit == Lim("undefined", FALSE, FALSE, 0)

NoCall == Call("none", Undefined, NoPart, Undefined, NoLimit, NoSong)

Res(st, bool, text, songs, albums, err) ==
    [st |-> st, bool |-> bool, text |-> text, songs |-> songs, albums |-> albums,
     err |-> err]

NoResult == Res("none", FALSE, <<>>, <<>>, <<>>, NoErr)
Throw(e) == Res("throw", FALSE, <<>>, <<>>, <<>>, e)
ReturnBool(b) == Res("ok", b, <<>>, <<>>, <<>>, NoErr)
ReturnText(t) == Res("ok", FALSE, t, <<>>, <<>>, NoErr)
ReturnSongs(ss) == Res("ok", FALSE, <<>>, ss, <<>>, NoErr)
ReturnAlbums(as) == Res("ok", FALSE, <<>>, <<>>, as, NoErr)

\* A candidate's promise: pending, resolved to null, resolved to an entity
\* ("ok"), or rejected with an error.
Slot(st, song, album, err) == [st |-> st, song |-> song, album |-> album, err |-> err]
Pending == Slot("pending", NoSong, NoAlbum, NoErr)
Null == Slot("null", NoSong, NoAlbum, NoErr)

Summary(status, total, matching, positions) ==
    [status |-> status, total |-> total, matching |-> matching, positions |-> positions]

NoResponse == Summary("none", 0, 0, {})

Init ==
    /\ pc = "idle"
    /\ call = NoCall
    /\ fetches = <<>>
    /\ searches = 0
    /\ cands = <<>>
    /\ slots = <<>>
    /\ order = <<>>
    /\ parser = "none"
    /\ inner = NoErr
    /\ result = NoResult
    /\ page = NoPage
    /\ response = NoResponse
    /\ failed = {}
    /\ extract = NoExtract

\* ------------------------------------------------------- validate (74-87)
Validate(c) ==
    /\ pc = "idle"
    /\ call' = Call("validate", Render(c), c, Undefined, NoLimit, NoSong)
    /\ result' = ReturnBool(validate(Render(c)))
    /\ pc' = "done"
    /\ UNCHANGED <<fetches, searches, cands, slots, order, parser, inner, page,
                   response, failed, extract>>

\* ------------------------------------------------------- resolve (92-111)
\* up to the await of fetchPage
Resolve(c) ==
    /\ pc = "idle"
    /\ call' = Call("resolve", Render(c), c, Undefined, NoLimit, NoSong)
    /\ IF ~validate(Render(c))
       THEN /\ result' = Throw(DisTuneError("INVALID_TYPE", "url"))
            /\ pc' = "done"
            /\ UNCHANGED fetches
       ELSE /\ fetches' = <<Render(c).s>>
            /\ pc' = "resolving"
            /\ UNCHANGED result
    /\ UNCHANGED <<searches, cands, slots, order, parser, inner, page, response, failed,
                   extract>>

\* the try block after the page request has settled (98-106)
resolveBody(url, resp) ==
    LET f == fetchPage(resp)
        base == [ok |-> FALSE, parser |-> "none", song |-> NoSong, album |-> NoAlbum,
                 err |-> NoErr]
    IN IF ~f.ok
       THEN [base EXCEPT !.err = f.err]
       ELSE IF Includes(url, TrackMarker)
       THEN LET r == parseTrackPage(resp, url)
            IN [base EXCEPT !.ok = r.ok, !.parser = "track", !.song = r.song,
                            !.err = r.err]
       ELSE IF Includes(url, AlbumMarker)
       THEN LET r == parseAlbumPage(resp, url)
            IN [base EXCEPT !.ok = r.ok, !.parser = "album", !.album = r.album,
                            !.err = r.err]
       ELSE [base EXCEPT !.err = DisTuneError("BANDCAMP_PLUGIN_INVALID_URL",
                                              "URL must be a track or album")]

\* a catch block that throws what it caught
resolveCatchRethrow(e) == e

\* the catch block (107-110)
resolveCatch(e) == DisTuneError("BANDCAMP_PLUGIN_RESOLVE_ERROR", MessageOf(e))

ResolvePage(resp) ==
    /\ pc = "resolving"
    /\ LET r == resolveBody(call.url.s, resp)
       IN /\ parser' = r.parser
          /\ IF r.ok
             THEN /\ result' = IF r.parser = "track"
                               THEN ReturnSongs(<<r.song>>)
                               ELSE ReturnAlbums(<<r.album>>)
                  /\ UNCHANGED inner
             ELSE /\ inner' = r.err
                  /\ result' = Throw(resolveCatch(r.err))
    /\ page' = resp
    /\ pc' = "done"
    /\ UNCHANGED <<call, fetches, searches, cands, slots, order, response, failed,
                   extract>>

\* ------------------------------- searchSongs (116-170), searchAlbums (175-240)
Min(a, b) == IF a < b THEN a ELSE b

\* results.slice(0, limit)
Slice(s, n) == SubSeq(s, 1, Min(n, Len(s)))

\* searchSong is searchSongs called with limit 1 (393)
KindOf(op) == IF op \in {"searchSongs", "searchSong"} THEN "t" ELSE "a"

NoResultMessage(kind) ==
    IF kind = "t" THEN "Cannot find any tracks on Bandcamp!"
    ELSE "Cannot find any albums on Bandcamp!"

\* the argument checks and the search request (117-137, 176-196)
Search(op, q, l) ==
    /\ pc = "idle"
    /\ call' = Call(op, Undefined, NoPart, q, l, NoSong)
    /\ IF q.t # "string"
       THEN /\ result' = Throw(DisTuneError("INVALID_TYPE", "query"))
            /\ pc' = "done"
            /\ UNCHANGED searches
       ELSE IF BadLimit(EffectiveLimit(l))
       THEN /\ result' = Throw(DisTuneError("INVALID_TYPE", "limit"))
            /\ pc' = "done"
            /\ UNCHANGED searches
       ELSE /\ searches' = searches + 1
            /\ pc' = "searching"
            /\ UNCHANGED result
    /\ UNCHANGED <<fetches, cands, slots, order, parser, inner, page, response, failed,
                   extract>>

SearchSongs(q, l) == Search("searchSongs", q, l)

SearchAlbums(q, l) == Search("searchAlbums", q, l)

\* searchSongs called without a limit
SearchSongLimitLeftOut == Lim("undefined", FALSE, FALSE, 0)

\* this.searchSongs(query, 1, options) (393)
SearchSongLimit == Lim("number", TRUE, FALSE, 1)

\* searchSong (392-393): up to the await inside searchSongs
SearchSong(q) == Search("searchSong", q, SearchSongLimit)

\* searchSong after searchSongs has returned songs (394-397)
searchSongResult(songs) ==
    IF songs = <<>>
    THEN Throw(DisTuneError("BANDCAMP_PLUGIN_NO_RESULT", "Cannot find on Bandcamp!"))
    ELSE ReturnSongs(<<songs[1]>>)

\* searchResults without the check of the filtered list (147-149)
searchResultsNoKindCheck(resp, kind) ==
    LET IsKind(r) == r.type = kind
        filtered == SelectSeq(resp.results, IsKind)
        noResult == DisTuneError("BANDCAMP_PLUGIN_NO_RESULT", NoResultMessage(kind))
    IN IF resp.status = "reject"
       THEN [ok |-> FALSE, results |-> <<>>, err |-> Err("TypeError", "fetch failed")]
       ELSE IF resp.status = "badjson"
       THEN [ok |-> FALSE, results |-> <<>>, err |-> Err("SyntaxError", "Unexpected token")]
       ELSE IF resp.status = "noauto" \/ resp.results = <<>>
       THEN [ok |-> FALSE, results |-> <<>>, err |-> noResult]
       ELSE [ok |-> TRUE, results |-> filtered, err |-> NoErr]

\* from the search response to the filtered result list (139-149, 198-208)
searchResults(resp, kind) ==
    LET IsKind(r) == r.type = kind
        filtered == SelectSeq(resp.results, IsKind)
        noResult == DisTuneError("BANDCAMP_PLUGIN_NO_RESULT", NoResultMessage(kind))
    IN IF resp.status = "reject"
       THEN [ok |-> FALSE, results |-> <<>>, err |-> Err("TypeError", "fetch failed")]
       ELSE IF resp.status = "badjson"
       THEN [ok |-> FALSE, results |-> <<>>, err |-> Err("SyntaxError", "Unexpected token")]
       ELSE IF resp.status = "noauto" \/ resp.results = <<>>
       THEN [ok |-> FALSE, results |-> <<>>, err |-> noResult]
       ELSE IF filtered = <<>>
       THEN [ok |-> FALSE, results |-> <<>>, err |-> noResult]
       ELSE [ok |-> TRUE, results |-> filtered, err |-> NoErr]

\* the catch blocks (166-169, 237-239)
searchSongsCatch(e) == DisTuneError("BANDCAMP_PLUGIN_SEARCH_ERROR", MessageOf(e))

searchAlbumsCatch(e) == DisTuneError("BANDCAMP_PLUGIN_SEARCH_ERROR", e.message)

searchCatch(op, e) == IF KindOf(op) = "t" THEN searchSongsCatch(e) ELSE searchAlbumsCatch(e)

\* only the first candidate's page request is issued by the map call
RequestsFirstOnly(cs) ==
    LET HasUrl(c) == c.item_url_path # <<>>
        withPath == SelectSeq(cs, HasUrl)
    IN [i \in 1..Min(1, Len(withPath)) |-> withPath[i].item_url_path]

\* A candidate's callback runs up to its first await when map calls it: one
\* without item_url_path resolves to null at once, the others each issue
\* their page request, all in the same step.
Dispatch(cs) == [i \in 1..Len(cs) |-> IF cs[i].item_url_path = <<>> THEN Null ELSE Pending]

HasPath(c) == c.item_url_path # <<>>

Requests(cs) ==
    LET withPath == SelectSeq(cs, HasPath)
    IN [i \in 1..Len(withPath) |-> withPath[i].item_url_path]

SearchResponse(resp) ==
    /\ pc = "searching"
    /\ LET r == searchResults(resp, KindOf(call.op))
           dispatched == Slice(r.results, EffectiveLimit(call.limit).n)
       IN IF ~r.ok
          THEN /\ inner' = r.err
               /\ result' = Throw(searchCatch(call.op, r.err))
               /\ pc' = "done"
               /\ UNCHANGED <<cands, slots, fetches>>
          ELSE /\ cands' = dispatched
               /\ slots' = Dispatch(dispatched)
               /\ fetches' = fetches \o Requests(dispatched)
               /\ pc' = "fanout"
               /\ UNCHANGED <<inner, result>>
    /\ LET IsKind(r) == r.type = KindOf(call.op)
       IN response' = Summary(resp.status, Len(resp.results),
                              Len(SelectSeq(resp.results, IsKind)),
                              { i \in 1..Len(resp.results) : IsKind(resp.results[i]) })
    /\ UNCHANGED <<call, searches, order, parser, page, failed, extract>>

\* trackCallback without its try/catch: a failure rejects the promise
trackCallbackNoCatch(cand, resp) ==
    LET f == fetchPage(resp)
        r == parseTrackPage(resp, cand.item_url_path)
    IN IF ~f.ok THEN Slot("rejected", NoSong, NoAlbum, f.err)
       ELSE IF ~r.ok THEN Slot("rejected", NoSong, NoAlbum, r.err)
       ELSE Slot("ok", r.song, NoAlbum, NoErr)

\* the callback of searchSongs after its page request has settled (153-162)
trackCallback(cand, resp) ==
    LET f == fetchPage(resp)
        r == parseTrackPage(resp, cand.item_url_path)
    IN IF ~f.ok THEN Null
       ELSE IF ~r.ok THEN Null
       ELSE Slot("ok", r.song, NoAlbum, NoErr)

\* the callback of searchAlbums after its page request has settled (212-233)
albumCallback(cand, resp) ==
    LET f == fetchPage(resp)
        r == parseAlbumPage(resp, cand.item_url_path)
    IN IF ~f.ok THEN Null
       ELSE IF ~r.ok THEN Null
       ELSE Slot("ok", NoSong, [url |-> r.album.url, songs |-> r.album.songs], NoErr)

CandidateDone(i, resp) ==
    /\ pc = "fanout"
    /\ i \in 1..Len(slots)
    /\ slots[i].st = "pending"
    /\ slots' = [slots EXCEPT ![i] = IF KindOf(call.op) = "t"
                                     THEN trackCallback(cands[i], resp)
                                     ELSE albumCallback(cands[i], resp)]
    /\ order' = Append(order, i)
    /\ failed' = IF \/ ~fetchPage(resp).ok
                    \/ KindOf(call.op) = "t"
                         /\ ~parseTrackPage(resp, cands[i].item_url_path).ok
                    \/ KindOf(call.op) = "a"
                         /\ ~parseAlbumPage(resp, cands[i].item_url_path).ok
                 THEN failed \cup {i}
                 ELSE failed
    /\ UNCHANGED <<pc, call, fetches, searches, cands, parser, inner, result, page,
                   response, extract>>

\* the values in the order in which the promises settled
PromiseAllInSettleOrder(sl, ord) ==
    [k \in 1..Len(ord) |-> sl[ord[k]]]

\* Promise.all: the values in the order of the promises it was given,
\* whatever the order ord in which they settled
PromiseAll(sl, ord) == sl

\* tracks.filter(isTruthy)
IsTruthy(s) == s.st = "ok"

FilterTruthy(sl) == SelectSeq(sl, IsTruthy)

Rejected(sl) == { i \in 1..Len(sl) : sl[i].st = "rejected" }

\* a join that resumes as soon as one promise has settled
JoinReadyAny(sl) == \E i \in 1..Len(sl) : sl[i].st # "pending"

\* when the promise of Promise.all settles: every promise it was given has
\* resolved, or one has rejected
JoinReady(sl) ==
    \/ Rejected(sl) # {}
    \/ \A i \in 1..Len(sl) : sl[i].st # "pending"

\* the await of Promise.all and the return (151-165, 210-236): it resumes
\* when every promise has resolved, or throws when one has rejected
SearchJoin ==
    /\ pc = "fanout"
    /\ JoinReady(slots)
    /\ IF Rejected(slots) # {}
       THEN LET e == slots[CHOOSE i \in Rejected(slots) : TRUE].err
            IN /\ inner' = e
               /\ result' = Throw(searchCatch(call.op, e))
       ELSE LET kept == FilterTruthy(PromiseAll(slots, order))
                songs == [i \in 1..Len(kept) |-> kept[i].song]
            IN /\ result' = IF call.op = "searchSongs" THEN ReturnSongs(songs)
                            ELSE IF call.op = "searchSong" THEN searchSongResult(songs)
                            ELSE ReturnAlbums([i \in 1..Len(kept) |-> kept[i].album])
               /\ UNCHANGED inner
    /\ pc' = "done"
    /\ UNCHANGED <<call, fetches, searches, cands, slots, order, parser, page,
                   response, failed, extract>>

\* ------------------------------------------------- getStreamURL (376-387)
\* The songs a caller can hold: built by the constructor from a raw stream
\* URL, or with the public field streamUrl assigned afterwards.
RawUrls == { <<>>, Rel, Bare, Schemed, SchemedHttp }

SongWith(raw) ==
    BandcampSong([id |-> <<"1">>, title |-> "A", duration |-> 5,
                  url |-> CandUrl("t", 1), streamUrl |-> raw])

SongArgs ==
    { SongWith(raw) : raw \in RawUrls }
    \cup { [SongWith(Rel) EXCEPT !.streamUrl = raw] : raw \in RawUrls }

GetStreamURL(song) ==
    /\ pc = "idle"
    /\ call' = Call("getStreamURL", Undefined, NoPart, Undefined, NoLimit, song)
    /\ LET r == getStreamURL(song)
       IN result' = IF r.ok THEN ReturnText(r.url) ELSE Throw(r.err)
    /\ pc' = "done"
    /\ UNCHANGED <<fetches, searches, cands, slots, order, parser, inner, page,
                   response, failed, extract>>

\* ---------------------------------------------- getRelatedSongs (404-456)
\* The songs a caller can hold: resolved from a track page (the id is the
\* text of a track_id, or a title_link), taken from an album, without a
\* url, or with a url that begins with the track marker.
RelatedSongArgs ==
    { [SongWith(Rel) EXCEPT !.id = id, !.url = url] :
        id \in { <<"1">>, <<"4">>, <<"a">> },
        url \in { CandUrl("t", 1), CandUrl("a", 1), <<>>, <<"/", "track", "/", "x">> } }

\* the JS value of trackInfo.track_id: a number, or undefined
JsTrackId(e) ==
    IF e.track_id = None THEN Undefined
    ELSE [t |-> "number", s |-> <<ToString(e.track_id[1])>>]

\* a === b: the same type and the same value
StrictEquals(a, b) == a.t = b.t /\ a.s = b.s

\* .filter((t) => t.file?.['mp3-128'] && t.track_id !== song.id).slice(0, 10)
RelatedTracks(trackinfo, song) ==
    LET Keep(e) == HasStream(e) /\ ~StrictEquals(JsTrackId(e), Str(song.id))
    IN Slice(SelectSeq(trackinfo, Keep), RelatedLimit)

RelatedTrackUrl(e, baseUrl) ==
    IF e.title_link # <<>> THEN baseUrl \o <<"/", "track", "/">> \o e.title_link ELSE baseUrl

\* up to the await of fetchPage (405-414)
GetRelatedSongs(song) ==
    /\ pc = "idle"
    /\ call' = Call("getRelatedSongs", Undefined, NoPart, Undefined, NoLimit, song)
    /\ IF song.url = <<>> \/ SplitFirst(song.url, TrackMarker) = <<>>
       THEN /\ result' = ReturnSongs(<<>>)
            /\ pc' = "done"
            /\ UNCHANGED fetches
       ELSE /\ fetches' = <<SplitFirst(song.url, TrackMarker)>>
            /\ pc' = "relating"
            /\ UNCHANGED result
    /\ UNCHANGED <<searches, cands, slots, order, parser, inner, page, response, failed,
                   extract>>

\* the try block after the page request has settled (414-451)
relatedBody(song, baseUrl, resp) ==
    LET f == fetchPage(resp)
    IN IF ~f.ok
       THEN [ok |-> FALSE, songs |-> <<>>, err |-> f.err]
       ELSE IF resp.attr = "absent"
       THEN [ok |-> TRUE, songs |-> <<>>, err |-> NoErr]
       ELSE IF resp.attr = "badjson"
       THEN [ok |-> FALSE, songs |-> <<>>, err |-> Err("SyntaxError", "Unexpected token")]
       ELSE IF ~resp.hasTrackinfo
       THEN [ok |-> FALSE, songs |-> <<>>,
             err |-> Err("TypeError", "Cannot read properties of undefined")]
       ELSE LET tracks == RelatedTracks(resp.trackinfo, song)
            IN [ok |-> TRUE,
                songs |-> [i \in 1..Len(tracks) |->
                              BandcampSong([id |-> TrackId(tracks[i]),
                                            title |-> tracks[i].title,
                                            duration |-> Duration(tracks[i]),
                                            url |-> RelatedTrackUrl(tracks[i], baseUrl),
                                            streamUrl |-> tracks[i].mp3])],
                err |-> NoErr]

\* a catch block that throws what it caught
relatedCatchRethrow(e) == Throw(e)

\* the catch block (452-455)
relatedCatch(e) == ReturnSongs(<<>>)

RelatedPage(resp) ==
    /\ pc = "relating"
    /\ LET r == relatedBody(call.song, fetches[1], resp)
       IN IF r.ok
          THEN /\ result' = ReturnSongs(r.songs)
               /\ UNCHANGED inner
          ELSE /\ inner' = r.err
               /\ result' = relatedCatch(r.err)
    /\ page' = resp
    /\ pc' = "done"
    /\ UNCHANGED <<call, fetches, searches, cands, slots, order, parser, response, failed,
                   extract>>

\* the caller has the result; the plugin holds nothing of the call
Settle ==
    /\ pc = "done"
    /\ pc' = "idle"
    /\ call' = NoCall
    /\ fetches' = <<>>
    /\ searches' = 0
    /\ cands' = <<>>
    /\ slots' = <<>>
    /\ order' = <<>>
    /\ parser' = "none"
    /\ inner' = NoErr
    /\ result' = NoResult
    /\ page' = NoPage
    /\ response' = NoResponse
    /\ failed' = {}
    /\ UNCHANGED extract

Next ==
    \/ \E c \in UrlParts : Validate(c)
    \/ \E c \in UrlParts : Resolve(c)
    \/ \E resp \in Pages : ResolvePage(resp)
    \/ \E q \in Queries, l \in Limits : SearchSongs(q, l)
    \/ \E q \in Queries, l \in Limits : SearchAlbums(q, l)
    \/ \E q \in Queries : SearchSong(q)
    \/ \E resp \in SearchResponses : SearchResponse(resp)
    \/ \E i \in 1..MaxResults, resp \in CandidatePages : CandidateDone(i, resp)
    \/ SearchJoin
    \/ \E song \in SongArgs : GetStreamURL(song)
    \/ \E song \in RelatedSongArgs : GetRelatedSongs(song)
    \/ \E resp \in Pages : RelatedPage(resp)
    \/ Settle

Spec == Init /\ [][Next]_vars

\* ------------------------------------------------- the searches on their own
SearchNext ==
    \/ \E q \in Queries, l \in Limits : SearchSongs(q, l)
    \/ \E q \in Queries, l \in Limits : SearchAlbums(q, l)
    \/ \E q \in Queries : SearchSong(q)
    \/ \E resp \in SearchResponses : SearchResponse(resp)
    \/ \E i \in 1..MaxResults, resp \in CandidatePages : CandidateDone(i, resp)
    \/ SearchJoin
    \/ Settle

\* The continuation of an await runs once its promise has settled: the
\* event loop does not leave a ready continuation aside.  Nothing obliges
\* the network to answer a page request.
FairSpec == Init /\ [][SearchNext]_vars /\ WF_vars(SearchJoin)

\* ------------------------------------------- the decoding step on its own
\* A page parser has matched the attribute of a page that carries the
\* text plain.
DecodeInit ==
    /\ pc = "idle"
    /\ call = NoCall
    /\ fetches = <<>>
    /\ searches = 0
    /\ cands = <<>>
    /\ slots = <<>>
    /\ order = <<>>
    /\ parser = "none"
    /\ inner = NoErr
    /\ result = NoResult
    /\ page = NoPage
    /\ response = NoResponse
    /\ failed = {}
    /\ extract \in { Extract("matched", x, HtmlEncode(x), <<>>) : x \in Plains }

\* decodedData (271-276)
Decode ==
    /\ extract.st = "matched"
    /\ extract' = [extract EXCEPT !.st = "decoded",
                                  !.decoded = EntityDecode(extract.captured)]
    /\ UNCHANGED <<pc, call, fetches, searches, cands, slots, order, parser, inner,
                   result, page, response, failed>>

DecodeNext == Decode

DecodeSpec == DecodeInit /\ [][DecodeNext]_vars

\* ======================================================================
\* Properties
\* ======================================================================
SearchOps == {"searchSongs", "searchAlbums"}

\* a search call has returned or thrown after handing candidates to the fan-out
FanOutDone == pc = "done" /\ call.op \in SearchOps /\ cands # <<>>

\* the entities the call returned
Returned == IF call.op = "searchSongs" THEN result.songs ELSE result.albums

\* what candidate i's promise resolved to
EntityOf(i) == IF call.op = "searchSongs" THEN slots[i].song ELSE slots[i].album

\* the candidates whose page was fetched and parsed without a failure
Succeeded == { i \in 1..Len(cands) : HasPath(cands[i]) /\ i \notin failed }

\* C1: whatever subset of the candidates of a searchSongs/searchAlbums call
\* fails to fetch or parse, the call does not throw and returns exactly the
\* entities of the candidates that succeeded, one each; when all fail it
\* returns the empty sequence.
C1_PartialFailure ==
    FanOutDone =>
        /\ result.st = "ok"
        /\ Len(Returned) = Cardinality(Succeeded)
        /\ { Returned[k] : k \in 1..Len(Returned) } = { EntityOf(i) : i \in Succeeded }
        /\ (Succeeded = {} => Returned = <<>>)

\* some of three fetched candidates failed, the others were returned
C1_Witness ==
    /\ FanOutDone
    /\ Len(cands) = 3
    /\ Cardinality(failed) = 1
    /\ Cardinality(Succeeded) = 2
    /\ result.st = "ok"
    /\ Len(Returned) = 2

\* the candidate an entity was built for: each candidate has its own URL
CandidateOf(e) == CHOOSE i \in 1..Len(cands) : cands[i].item_url_path = e.url

\* C2: in whatever order the candidates' page fetches complete, the
\* returned entities stand in the order of their candidates in the
\* filtered result list.
C2_CandidateOrder ==
    (FanOutDone /\ result.st = "ok") =>
        \A j, k \in 1..Len(Returned) :
            j < k => CandidateOf(Returned[j]) < CandidateOf(Returned[k])

\* a later candidate's fetch completed before an earlier one's, and both
\* are in the result
C2_Witness ==
    /\ FanOutDone
    /\ result.st = "ok"
    /\ \E j, k \in 1..Len(order) :
          /\ j < k
          /\ order[j] > order[k]
          /\ {order[j], order[k]} \subseteq Succeeded
    /\ Len(Returned) >= 2

\* what the parts a URL was written from say about it
IsSubdomain(labels) ==
    /\ Len(labels) >= 3
    /\ labels[Len(labels) - 1] = <<"bandcamp">>
    /\ labels[Len(labels)] = <<"com">>

HasMarkerSegment(segs) ==
    \E i \in 1..(Len(segs) - 1) : segs[i] \in { <<"track">>, <<"album">> }

ExpectedValid(c) == c.form = "url" /\ IsSubdomain(c.labels) /\ HasMarkerSegment(c.segs)

ZeroOfKind ==
    /\ pc = "done"
    /\ call.op \in SearchOps
    /\ response.status \in {"ok", "noauto"}
    /\ response.matching = 0

\* C4 as stated: a search whose response has no candidate of the requested
\* kind fails with the no-result error, and no candidate page is fetched.
C4_Original ==
    ZeroOfKind =>
        /\ result.st = "throw"
        /\ result.err.code = "BANDCAMP_PLUGIN_NO_RESULT"
        /\ fetches = <<>>

\* C4, amended: such a search fails with the search error that carries the
\* message of the no-result error raised inside, and no candidate page is
\* fetched.
C4_NoResult ==
    ZeroOfKind =>
        /\ result.st = "throw"
        /\ result.err.code = "BANDCAMP_PLUGIN_SEARCH_ERROR"
        /\ result.err.message = NoResultMessage(KindOf(call.op))
        /\ inner.code = "BANDCAMP_PLUGIN_NO_RESULT"
        /\ fetches = <<>>

\* a response that lists only candidates of other kinds has been answered
C4_Witness ==
    /\ ZeroOfKind
    /\ response.total > 0
    /\ result.st = "throw"

WrappedOps == {"resolve"} \cup SearchOps

Tag(op) ==
    IF op = "resolve" THEN "BANDCAMP_PLUGIN_RESOLVE_ERROR"
    ELSE "BANDCAMP_PLUGIN_SEARCH_ERROR"

\* the call's arguments passed the checks made before the try block
ArgsPassed ==
    IF call.op = "resolve"
    THEN validate(call.url)
    ELSE call.query.t = "string" /\ ~BadLimit(EffectiveLimit(call.limit))

AfterValidation == pc = "done" /\ call.op \in WrappedOps /\ ArgsPassed

\* C5 as stated: every error raised inside resolve, searchSongs or
\* searchAlbums after the arguments passed validation reaches the caller as
\* the operation's own error with the original message.
C5_Original ==
    (AfterValidation /\ (inner # NoErr \/ failed # {})) =>
        /\ result.st = "throw"
        /\ result.err.code = Tag(call.op)
        /\ (inner # NoErr => result.err.message = inner.message)

\* C5, amended: every such error other than one raised while fetching or
\* parsing a single candidate's page in the fan-out reaches the caller as
\* the operation's own error with the original message, and nothing else
\* is thrown.
C5_Wrapped ==
    AfterValidation =>
        /\ inner # NoErr =>
              /\ result.st = "throw"
              /\ result.err.code = Tag(call.op)
              /\ result.err.message = inner.message
        /\ result.st = "throw" =>
              /\ inner # NoErr
              /\ result.err.code = Tag(call.op)

\* resolve has thrown its own error for a page without a stream URL
C5_Witness ==
    /\ AfterValidation
    /\ call.op = "resolve"
    /\ inner = Err("Error", "Could not find MP3 stream URL")
    /\ result.st = "throw"
    /\ result.err = Err("BANDCAMP_PLUGIN_RESOLVE_ERROR", "Could not find MP3 stream URL")

\* a limit that was given and is not a positive integer
NotPositiveInteger(l) ==
    l.t # "undefined" /\ (l.t # "number" \/ l.nan \/ ~l.int \/ l.n < 1)

BadSearchArgs == call.query.t # "string" \/ NotPositiveInteger(call.limit)

\* C6: a search called with a limit that is not a positive integer, or with
\* a query that is not a string, is rejected with the invalid-argument
\* error, and the call issues no search request and no page request.
C6_RejectBeforeNetwork ==
    (call.op \in SearchOps /\ BadSearchArgs) =>
        /\ pc = "done"
        /\ result.st = "throw"
        /\ result.err.code = "INVALID_TYPE"
        /\ searches = 0
        /\ fetches = <<>>

\* searchAlbums has rejected the limit 1.5
C6_Witness ==
    /\ pc = "done"
    /\ call.op = "searchAlbums"
    /\ call.query.t = "string"
    /\ call.limit = Lim("number", FALSE, FALSE, 1)
    /\ result.st = "throw"
    /\ result.err.code = "INVALID_TYPE"

\* C7 as stated: resolve throws without a page request when validate
\* rejects the URL; for a URL validate accepts it requests the page exactly
\* once and hands the page it gets to the track parser or the album parser.
C7_Claim ==
    (pc = "done" /\ call.op = "resolve") =>
        IF ~validate(call.url)
        THEN result.st = "throw" /\ fetches = <<>>
        ELSE /\ Len(fetches) = 1
             /\ (fetchPage(page).ok => parser \in {"track", "album"})

\* the entries of a trackinfo that carry a stream URL
Qualifying(ti) == { i \in 1..Len(ti) : ti[i].mp3 # <<>> }

MinOf(S) == CHOOSE x \in S : \A y \in S : x <= y

AlbumResolved ==
    pc = "done" /\ call.op = "resolve" /\ result.st = "ok" /\ parser = "album"

\* C8: the album resolve returns has one song per trackinfo entry with a
\* stream URL, in the entries' order, and its first song is named after the
\* first such entry.
C8_AlbumTracks ==
    AlbumResolved =>
        LET songs == result.albums[1].songs
            ti == page.trackinfo
            q == Qualifying(ti)
        IN /\ Len(songs) = Cardinality(q)
           /\ \E f \in [1..Len(songs) -> q] :
                 /\ \A j, k \in 1..Len(songs) : j < k => f[j] < f[k]
                 /\ \A j \in 1..Len(songs) : songs[j].name = ti[f[j]].title
           /\ (q # {} => songs[1].name = ti[MinOf(q)].title)

\* an album page whose first entry has no stream URL and whose second and
\* third have one has been resolved
C8_Witness ==
    /\ AlbumResolved
    /\ Len(page.trackinfo) = 3
    /\ Qualifying(page.trackinfo) = {2, 3}
    /\ page.trackinfo[2] # page.trackinfo[3]
    /\ Len(result.albums[1].songs) = 2

TrackResolved ==
    pc = "done" /\ call.op = "resolve" /\ result.st = "ok" /\ parser = "track"

\* C9: the song resolve returns for a track URL has the title of the
\* page's first trackinfo entry as its name, the URL passed to resolve as
\* its url, and that entry's duration, 0 without one, as its duration.
C9_TrackFields ==
    TrackResolved =>
        LET song == result.songs[1]
            e == page.trackinfo[1]
        IN /\ song.name = e.title
           /\ song.url = call.url.s
           /\ song.duration = (IF e.duration = <<>> THEN 0 ELSE e.duration[1])

\* a track page of several entries whose first has no duration has been
\* resolved
C9_Witness ==
    /\ TrackResolved
    /\ Len(page.trackinfo) >= 2
    /\ page.trackinfo[1].duration = <<>>
    /\ page.trackinfo[2] # page.trackinfo[1]
    /\ result.songs[1].duration = 0

\* C10 as stated: for a song whose stored stream URL is not empty,
\* getStreamURL returns the stored URL unchanged when it starts with
\* http:// or https://, and otherwise a URL that starts with https://.
C10_Claim ==
    (pc = "done" /\ call.op = "getStreamURL" /\ call.song.streamUrl # <<>>) =>
        /\ result.st = "ok"
        /\ IF StartsWith(call.song.streamUrl, <<"http", ":", "/", "/">>)
              \/ StartsWith(call.song.streamUrl, <<"https", ":", "/", "/">>)
           THEN result.text = call.song.streamUrl
           ELSE StartsWith(result.text, <<"https", ":", "/", "/">>)

\* C11 as stated: decoding the five entities undoes the encoding of any
\* text over & " < > ' and letters, also of a text that itself spells an
\* entity such as &lt; or &quot;.
C11_Claim ==
    extract.st = "decoded" => extract.decoded = extract.plain

RelatedDone == pc = "done" /\ call.op = "getRelatedSongs"

\* C12 as stated: getRelatedSongs returns at most 10 songs, each made from
\* an entry with a stream URL of the trackinfo of the page at the song's
\* url cut before /track/, and none of them has the id of the song given.
C12_Claim ==
    RelatedDone =>
        /\ result.st = "ok"
        /\ Len(result.songs) <= 10
        /\ fetches # <<>> => fetches = <<SplitFirst(call.song.url, TrackMarker)>>
        /\ \A k \in 1..Len(result.songs) :
              /\ \E i \in 1..Len(page.trackinfo) :
                    /\ page.trackinfo[i].mp3 # <<>>
                    /\ page.trackinfo[i].title = result.songs[k].name
              /\ result.songs[k].streamUrl # <<>>
              /\ result.songs[k].id # call.song.id

\* C13: getRelatedSongs never throws, and returns the empty sequence for a
\* song without a url, a page request that fails, a page without the
\* data-tralbum attribute, an attribute that is not JSON, and a record
\* without trackinfo.
C13_NeverRaises ==
    RelatedDone =>
        /\ result.st = "ok"
        /\ (\/ call.song.url = <<>>
            \/ page.status # "ok"
            \/ page.attr # "record"
            \/ ~page.hasTrackinfo) => result.songs = <<>>

\* the page of a song with a url held a record without trackinfo, and the
\* call returned the empty sequence
C13_Witness ==
    /\ RelatedDone
    /\ Len(fetches) = 1
    /\ page.status = "ok"
    /\ page.attr = "record"
    /\ ~page.hasTrackinfo
    /\ inner.code = "TypeError"
    /\ result = ReturnSongs(<<>>)

StreamURLDone == pc = "done" /\ call.op = "getStreamURL"

\* C14: getStreamURL throws the invalid-song error for a song without a
\* stream URL (absent or empty); for every other song it returns a URL
\* and does not throw; what it returns is never empty.
C14_InvalidSong ==
    StreamURLDone =>
        IF call.song.streamUrl = <<>>
        THEN /\ result.st = "throw"
             /\ result.err.code = "BANDCAMP_PLUGIN_INVALID_SONG"
        ELSE /\ result.st = "ok"
             /\ result.text # <<>>

\* getStreamURL has thrown for a song without a stream URL
C14_Witness ==
    /\ StreamURLDone
    /\ call.song.streamUrl = <<>>
    /\ result.st = "throw"
    /\ result.err.code = "BANDCAMP_PLUGIN_INVALID_SONG"

TrackOps == {"resolve", "searchSongs", "searchAlbums", "getRelatedSongs"}

\* the first entry of the page a call was served has no stream URL
FirstLacksStream ==
    /\ page.status = "ok"
    /\ page.attr = "record"
    /\ page.hasTrackinfo
    /\ page.trackinfo # <<>>
    /\ page.trackinfo[1].mp3 = <<>>

\* C15: no song that resolve, searchSongs, searchAlbums or getRelatedSongs
\* returns, on its own or inside an album, is without a stream URL; a
\* track page whose first entry has none makes resolve fail, and the
\* entries of an album page or a related page that have none are left out.
C15_StreamUrls ==
    (pc = "done" /\ call.op \in TrackOps) =>
        /\ \A k \in 1..Len(result.songs) : result.songs[k].streamUrl # <<>>
        /\ \A a \in 1..Len(result.albums) :
              \A k \in 1..Len(result.albums[a].songs) :
                  result.albums[a].songs[k].streamUrl # <<>>
        /\ (call.op = "resolve" /\ parser = "track" /\ FirstLacksStream) =>
              result.st = "throw"
        /\ AlbumResolved =>
              Len(result.albums[1].songs) = Cardinality(Qualifying(page.trackinfo))
        /\ (call.op = "getRelatedSongs" /\ page.hasTrackinfo) =>
              Len(result.songs) <= Cardinality(Qualifying(page.trackinfo))

\* getRelatedSongs has returned two songs from a page of three entries,
\* one of them without a stream URL
C15_Witness ==
    /\ pc = "done"
    /\ call.op = "getRelatedSongs"
    /\ Len(page.trackinfo) = 3
    /\ Cardinality(Qualifying(page.trackinfo)) = 2
    /\ Len(result.songs) = 2

\* a search call has got a response that lists candidates of its kind
FanOutStarted ==
    /\ call.op \in SearchOps
    /\ pc \in {"fanout", "done"}
    /\ response.status = "ok"
    /\ response.matching > 0

\* how many positions of the response that hold a candidate of the
\* requested kind come before position i
KindBefore(i) == Cardinality({ j \in response.positions : j < i })

\* the page requests a fan-out owes: one per candidate that has a page URL
Owed == { k \in 1..Len(cands) : cands[k].item_url_path # <<>> }

InFlightTogether ==
    FanOutStarted =>
        /\ searches = 1
        /\ Len(cands) = (IF EffectiveLimit(call.limit).n < response.matching
                         THEN EffectiveLimit(call.limit).n ELSE response.matching)
        /\ \A k \in 1..Len(cands) :
              cands[k].id \in response.positions /\ KindBefore(cands[k].id) = k - 1
        /\ Len(fetches) = Cardinality(Owed)
        /\ \A j \in 1..Len(fetches) :
              \E k \in Owed :
                  /\ fetches[j] = cands[k].item_url_path
                  /\ Cardinality({ h \in Owed : h < k }) = j - 1

\* C16: a search call requests the search endpoint once; it requests the
\* pages of the first min(limit, n) candidates of its kind, in the order of
\* the response, each at most once and none beyond them; and all these
\* requests are out as soon as the fan-out starts, however many candidates
\* have completed: no request is issued after another candidate completed.
C16_FanOut ==
    /\ []InFlightTogether
    /\ [][pc = "fanout" => (fetches' = fetches /\ searches' = searches)]_vars

\* three candidates of the kind stand in the response, the limit is 2, the
\* two page requests are out and no candidate has completed
C16_Witness ==
    /\ pc = "fanout"
    /\ call.op \in SearchOps
    /\ response.matching = 3
    /\ call.limit = Lim("number", TRUE, FALSE, 2)
    /\ Len(fetches) = 2
    /\ order = <<>>

SomePending == \E i \in 1..Len(slots) : slots[i].st = "pending"

\* a search call has returned or thrown while a candidate was pending
EarlyReturn == pc = "done" /\ call.op \in SearchOps /\ SomePending

\* C17: a search call returns only when every candidate handed to the
\* fan-out has completed, failed or not: it has never returned while one
\* is pending; as long as one is pending the call stays in the fan-out, so
\* it never returns if that one never completes; and once all have
\* completed the call returns.
C17_Join ==
    /\ []~EarlyReturn
    /\ [][(pc = "fanout" /\ SomePending) => pc' = "fanout"]_vars
    /\ (pc = "fanout" /\ ~SomePending) ~> (pc = "done")

\* of three candidates the first to complete failed, the call went on
\* waiting for the other two and then returned
C17_Witness ==
    /\ FanOutDone
    /\ Len(order) = 3
    /\ order[1] \in failed
    /\ Cardinality(failed) = 1
    /\ result.st = "ok"
    /\ Len(Returned) = 2

\* searchSong has got a response that lists track candidates
SongSearched ==
    /\ pc = "done"
    /\ call.op = "searchSong"
    /\ response.status = "ok"
    /\ response.matching > 0

\* what searchSong does with the first track candidate of the response
FirstOnly ==
    /\ Len(cands) = 1
    /\ cands[1].id \in response.positions
    /\ \A j \in response.positions : cands[1].id <= j
    /\ IF cands[1].item_url_path = <<>> \/ 1 \in failed
       THEN /\ result.st = "throw"
            /\ result.err.code = "BANDCAMP_PLUGIN_NO_RESULT"
       ELSE /\ result.st = "ok"
            /\ Len(result.songs) = 1
            /\ result.songs[1].url = cands[1].item_url_path

\* C19 as stated: searchSong looks at the first track candidate only;
\* exactly one candidate page is requested; it throws the no-result error
\* when that candidate's fetch or parse fails, whatever the later
\* candidates hold, and returns that candidate's song otherwise.
C19_Original ==
    SongSearched => (FirstOnly /\ Len(fetches) = 1)

\* C19, amended: at most one candidate page is requested, that of the
\* first track candidate when it carries a page URL, and none when it
\* carries no page URL; searchSong then throws the no-result error as it
\* does when the candidate's fetch or parse fails.
C19_FirstOnly ==
    SongSearched =>
        /\ FirstOnly
        /\ fetches = (IF cands[1].item_url_path = <<>> THEN <<>>
                      ELSE <<cands[1].item_url_path>>)

\* the first of three track candidates failed and searchSong threw, the
\* pages of the other two were never requested
C19_Witness ==
    /\ SongSearched
    /\ response.matching = 3
    /\ failed = {1}
    /\ Len(fetches) = 1
    /\ result.st = "throw"
    /\ result.err.code = "BANDCAMP_PLUGIN_NO_RESULT"

====
